---- MODULE Spec2Model ----
(***************************************************************************)
(* The AQL query builders of js-node-arango: ArangoBaseQueryBuilder and    *)
(* its document, edge and view subclasses.  A builder is an object of the  *)
(* heap q; the public operations setDocSelector, setRootDocSelector,       *)
(* addAdditionalQuery and prepareQuery are the actions.  Query text is a   *)
(* sequence of tokens, bind variables a function from generated names to   *)
(* values.                                                                 *)
(***************************************************************************)
EXTENDS Integers, Sequences, FiniteSets, TLC

\* ------------------------------------------------------------------ bounds
NumNodes == 3
MaxOps == 3

Nodes == 1..NumNodes
NoNode == 0

\* ----------------------------------------------------------------- strings
\* TLA+ strings are atoms; Chars spells out the characters of every string
\* that reaches one of the two regular expressions of the source.
Letters ==
  {"a","b","c","d","e","f","g","h","i","j","k","l","m","n","o","p","q","r","s",
   "t","u","v","w","x","y","z","A","B","C","D","E","F","G","H","I","J","K","L",
   "M","N","O","P","Q","R","S","T","U","V","W","X","Y","Z"}
Digits == {"0","1","2","3","4","5","6","7","8","9"}

Chars(s) ==
  CASE s = "" -> << >>
    [] s = "doc" -> <<"d","o","c">>
    [] s = "some" -> <<"s","o","m","e">>
    [] s = "doc2" -> <<"d","o","c","2">>
    [] s = "vertex" -> <<"v","e","r","t","e","x">>
    [] s = "res" -> <<"r","e","s">>
    [] s = "rootDoc" -> <<"r","o","o","t","D","o","c">>
    [] s = "related" -> <<"r","e","l","a","t","e","d">>
    [] s = "inner" -> <<"i","n","n","e","r">>
    [] s = "a-b_1" -> <<"a","-","b","_","1">>
    [] s = "1a" -> <<"1","a">>
    [] s = "-a" -> <<"-","a">>
    [] s = "_a" -> <<"_","a">>
    [] s = "doc//" -> <<"d","o","c","/","/">>
    [] s = "x || 1" -> <<"x"," ","|","|"," ","1">>
    [] s = "target" -> <<"t","a","r","g","e","t">>
    [] s = "edge" -> <<"e","d","g","e">>
    [] s = "manifest" -> <<"m","a","n","i","f","e","s","t">>
    [] s = "data_sources" -> <<"d","a","t","a","_","s","o","u","r","c","e","s">>
    [] s = "_users" -> <<"_","u","s","e","r","s">>
    [] s = "deneme/1-2" -> <<"d","e","n","e","m","e","/","1","-","2">>
    [] s = "invalid" -> <<"i","n","v","a","l","i","d">>
    [] s = "1x/2" -> <<"1","x","/","2">>
    [] s = "a/" -> <<"a","/">>
    [] s = "ANY" -> <<"A","N","Y">>
    [] s = "OUTBOUND" -> <<"O","U","T","B","O","U","N","D">>
    [] s = "INBOUND" -> <<"I","N","B","O","U","N","D">>
    [] s = "ANY x" -> <<"A","N","Y"," ","x">>
    [] s = "==" -> <<"=","=">>
    [] s = "!=" -> <<"!","=">>
    [] s = "== 1 ||" -> <<"=","="," ","1"," ","|","|">>

\* [A-Za-z0-9\-_]
IdentChar(c) == c \in Letters \cup Digits \cup {"-", "_"}

\* /^[A-Za-z][A-Za-z0-9\-_]*$/.test(phrase)
MatchesIdentifier(cs) ==
  /\ Len(cs) >= 1
  /\ cs[1] \in Letters
  /\ \A i \in 2..Len(cs) : IdentChar(cs[i])

\* /^[A-Za-z][A-Za-z0-9\-_]*\/[A-Za-z0-9\-_]+$/.test(startingVertexId)
MatchesArangoId(cs) ==
  \E k \in 1..Len(cs) :
    /\ cs[k] = "/"
    /\ MatchesIdentifier(SubSeq(cs, 1, k - 1))
    /\ Len(cs) > k
    /\ \A i \in (k + 1)..Len(cs) : IdentChar(cs[i])

\* The pattern without its closing anchor: /^[A-Za-z][A-Za-z0-9\-_]*/
checkSafeUnanchored(phrase) ==
  \E k \in 1..Len(Chars(phrase)) : MatchesIdentifier(SubSeq(Chars(phrase), 1, k))

\* checkSafe(phrase): TRUE when it returns, FALSE when it throws.
checkSafe(phrase) == MatchesIdentifier(Chars(phrase))

\* ------------------------------------------------------------------ values
\* A JavaScript value as it occurs in options and bind variables:
\* t is its type, n a number, s the string(s), sub the entries of an object.
VStr(x) == [t |-> "string", n |-> 0, s |-> <<x>>, sub |-> << >>]
VNum(k) == [t |-> "number", n |-> k, s |-> << >>, sub |-> << >>]
VArr(xs) == [t |-> "array", n |-> 0, s |-> xs, sub |-> << >>]
VNull == [t |-> "null", n |-> 0, s |-> << >>, sub |-> << >>]
VUndefined == [t |-> "undefined", n |-> 0, s |-> << >>, sub |-> << >>]
VObj(entries) == [t |-> "object", n |-> 0, s |-> << >>, sub |-> entries]
Entry(key, val) == [key |-> key, val |-> val]

\* x === undefined || x === null, the test of the ?? operator
Nullish(v) == v.t \in {"null", "undefined"}

\* obj.hasOwnProperty(key)
hasOwnProperty(obj, key) == \E i \in 1..Len(obj.sub) : obj.sub[i].key = key

\* obj[key] for a value on which property access does not throw
Prop(obj, key) ==
  IF obj.t = "object" /\ hasOwnProperty(obj, key)
  THEN obj.sub[CHOOSE i \in 1..Len(obj.sub) : obj.sub[i].key = key].val
  ELSE VUndefined

\* 'a.b'.split('.'): a string is the sequence of its key atoms and "." atoms
RECURSIVE SplitFrom(_, _, _)
SplitFrom(atoms, i, cur) ==
  IF i > Len(atoms) THEN <<cur>>
  ELSE IF atoms[i] = "." THEN <<cur>> \o SplitFrom(atoms, i + 1, "")
  ELSE SplitFrom(atoms, i + 1, CASE cur = "" -> atoms[i])
split(atoms) == SplitFrom(atoms, 1, "")

\* ------------------------------------------------------------------ tokens
\* One lexeme of the query text.  kw: text of a template literal; id, op,
\* dir: an interpolated string (identifier, comparison operator, direction);
\* bind: @s_n; coll: @@s_n.
Kw(x) == [k |-> "kw", s |-> x, n |-> 0]
Id(x) == [k |-> "id", s |-> x, n |-> 0]
Op(x) == [k |-> "op", s |-> x, n |-> 0]
Dir(x) == [k |-> "dir", s |-> x, n |-> 0]
Bind(base, t) == [k |-> "bind", s |-> base, n |-> t]
Coll(base, t) == [k |-> "coll", s |-> base, n |-> t]

\* BindVars: the key of @s_n is s_n, the key of @@s_n is @s_n, so a
\* placeholder token is its own key.
EmptyVars == [x \in {} |-> VUndefined]
\* { ...a, ...b }
Spread(a, b) ==
  [x \in DOMAIN a \cup DOMAIN b |-> IF x \in DOMAIN b THEN b[x] ELSE a[x]]
\* vars[key] = val
SetVar(vars, key, val) == Spread(vars, [x \in {key} |-> val])

Range(f) == {f[i] : i \in DOMAIN f}
RECURSIVE Flatten(_)
Flatten(ss) == IF ss = << >> THEN << >> ELSE Head(ss) \o Flatten(Tail(ss))

\* ------------------------------------------------------------------- state
VARIABLES
  options,  \* options[n]: the query specification given to the constructor
  q,        \* q[n]: the fields of builder n
  result,   \* outcome of the last public call
  nops      \* number of public calls made

vars == <<options, q, result, nops>>

\* ------------------------------------------------------------ tree linkage
\* The immediate parent instead of the topmost one
getTopmostParentQueryImmediate(h, n) ==
  IF h[n].parent = NoNode THEN n ELSE h[n].parent

\* getTopmostParentQuery(): the node returned, NoNode when the loop never ends
RECURSIVE WalkParents(_, _, _)
WalkParents(h, parent, fuel) ==
  LET localParent == h[parent].parent IN
  IF localParent = NoNode THEN parent
  ELSE IF h[localParent].isRootQuery THEN localParent
  ELSE IF fuel = 0 THEN NoNode
  ELSE WalkParents(h, localParent, fuel - 1)

getTopmostParentQuery(h, n) ==
  IF h[n].parent = NoNode THEN n
  ELSE IF h[h[n].parent].isRootQuery THEN h[n].parent
  ELSE WalkParents(h, h[n].parent, Cardinality(DOMAIN h))

\* getNextTick() on node top: the heap after it and the value returned
getNextTick(h, top) ==
  [h |-> [h EXCEPT ![top].tick = @ + 1], t |-> h[top].tick + 1]

\* getNextGlobalTick() called by node n; it never returns when
\* getTopmostParentQuery() does not
Hangs(h, n) == getTopmostParentQuery(h, n) = NoNode
\* getNextGlobalTick() drawing from one counter shared by all builders
getNextGlobalTickShared(h, n) == getNextTick(h, 1)
getNextGlobalTickOwnCounter(h, n) == getNextTick(h, n)
getNextGlobalTick(h, n) == getNextTick(h, getTopmostParentQuery(h, n))

\* ------------------------------------------------------------- build steps
\* A build step maps the heap h and the node n to [h, err]: the heap when
\* the step returned or threw, and err = "ok" or the error thrown ("hang":
\* the step never returns).
Ok(h) == [h |-> h, err |-> "ok"]
Throw(h, e) == [h |-> h, err |-> e]
Then(r, n, F(_, _)) == IF r.err = "ok" THEN F(r.h, n) ELSE r

\* handleCommaSeparated(values, keyNameInput): [h, err, text]
RECURSIVE CommaLoop(_, _, _, _, _, _)
CommaLoop(h, n, values, i, keyNameInput, statement) ==
  IF i > Len(values) THEN [h |-> h, err |-> "ok", text |-> statement]
  ELSE IF Hangs(h, n) THEN [h |-> h, err |-> "hang", text |-> statement]
  ELSE
    LET h1 == getNextGlobalTick(h, n).h
        key == Coll(keyNameInput, getNextGlobalTick(h, n).t)
        h2 == [h1 EXCEPT ![n].bindVars = SetVar(@, key, VStr(values[i]))]
        sep == IF i # Len(values) THEN <<Kw(",")>> ELSE << >>
    IN CommaLoop(h2, n, values, i + 1, keyNameInput, statement \o <<key>> \o sep)

handleCommaSeparated(h, n, values, keyNameInput) ==
  IF ~checkSafe(keyNameInput)
  THEN [h |-> h, err |-> "UnsafeIdentifier", text |-> << >>]
  ELSE CommaLoop(h, n, values, 1, keyNameInput, << >>)

\* ArangoEdgeQueryBuilder.buildEdges; Array.isArray(x) ? x : [x] is x.s for a
\* string and for an array of strings
buildEdges(h, n) ==
  LET r == handleCommaSeparated(h, n, options[n].edgeCollections.s, "edge")
  IN IF r.err # "ok" THEN Throw(r.h, r.err)
     ELSE Ok([r.h EXCEPT ![n].edges = r.text])

\* The last branch of buildStartingVertexId: the alias of the topmost parent
StartFromTopmostParent(h, n) ==
  LET parent == getTopmostParentQuery(h, n) IN
  IF parent = NoNode THEN Throw(h, "hang")
  ELSE IF parent = n THEN Throw(h, "MissingStartingVertex")
  ELSE Ok([h EXCEPT ![n].rootDoc = h[parent].doc,
                    ![n].startingVertexId = <<Id(h[parent].doc), Kw("._id")>>])

\* The first branch once the starting vertex is accepted
BindStartingVertex(h, n) ==
  IF Hangs(h, n) THEN Throw(h, "hang")
  ELSE LET h1 == getNextGlobalTick(h, n).h
           id == Bind("starting_vertex", getNextGlobalTick(h, n).t)
       IN Ok([h1 EXCEPT ![n].startingVertexId = <<id>>,
                        ![n].bindVars =
                            SetVar(@, id, VStr(options[n].startingVertexId))])

\* buildStartingVertexId with the root-document selector tried first
buildStartingVertexIdRootDocFirst(h, n) ==
  IF h[n].rootDoc # ""
  THEN Ok([h EXCEPT ![n].startingVertexId = <<Id(h[n].rootDoc), Kw("._id")>>])
  ELSE IF options[n].startingVertexId # ""
  THEN IF ~MatchesArangoId(Chars(options[n].startingVertexId))
       THEN Throw(h, "InvalidVertexReference")
       ELSE BindStartingVertex(h, n)
  ELSE StartFromTopmostParent(h, n)

\* buildStartingVertexId binding the explicit starting vertex unvalidated
buildStartingVertexIdUnvalidated(h, n) ==
  IF options[n].startingVertexId # "" THEN BindStartingVertex(h, n)
  ELSE IF h[n].rootDoc = "" THEN StartFromTopmostParent(h, n)
  ELSE Ok([h EXCEPT ![n].startingVertexId = <<Id(h[n].rootDoc), Kw("._id")>>])

\* ArangoEdgeQueryBuilder.buildStartingVertexId
buildStartingVertexId(h, n) ==
  IF options[n].startingVertexId # ""
  THEN IF ~MatchesArangoId(Chars(options[n].startingVertexId))
       THEN Throw(h, "InvalidVertexReference")
       ELSE BindStartingVertex(h, n)
  ELSE IF h[n].rootDoc = "" THEN StartFromTopmostParent(h, n)
  ELSE Ok([h EXCEPT ![n].startingVertexId = <<Id(h[n].rootDoc), Kw("._id")>>])

\* ArangoEdgeQueryBuilder.buildSelector, after buildEdges and
\* buildStartingVertexId
buildEdgeSelector(h, n) ==
  IF Hangs(h, n) THEN Throw(h, "hang")
  ELSE LET h1 == getNextGlobalTick(h, n).h
           depthKey == Bind("depth", getNextGlobalTick(h, n).t)
       IN Ok([h1 EXCEPT
                ![n].selector = <<Kw("FOR"), Id(h[n].doc), Kw("IN 1.."), depthKey,
                                  Dir(options[n].direction.s[1])>>
                                \o h[n].startingVertexId \o h[n].edges,
                ![n].bindVars = SetVar(@, depthKey, options[n].depth)])

\* ArangoDocumentQueryBuilder.buildSelector
buildDocumentSelector(h, n) ==
  IF ~checkSafe(options[n].documentCollection) THEN Throw(h, "UnsafeIdentifier")
  ELSE IF Hangs(h, n) THEN Throw(h, "hang")
  ELSE LET h1 == getNextGlobalTick(h, n).h
           collectionKey == Coll("collection", getNextGlobalTick(h, n).t)
       IN Ok([h1 EXCEPT
                ![n].selector = <<Kw("FOR"), Id(h[n].doc), Kw("IN"), collectionKey>>,
                ![n].bindVars =
                    SetVar(@, collectionKey, VStr(options[n].documentCollection))])

\* buildSelector with the view builder selecting from its collection
buildSelectorViewAsDocument(h, n) ==
  CASE h[n].kind \in {"document", "view"} -> buildDocumentSelector(h, n)
    [] h[n].kind = "edge" ->
         Then(Then(buildEdges(h, n), n, buildStartingVertexId), n, buildEdgeSelector)
    [] h[n].kind = "base" -> Throw(h, "NotImplemented")

\* buildSelector of the class of node n; the base class (and the view
\* builder, which does not override it) throws
buildSelector(h, n) ==
  CASE h[n].kind = "document" -> buildDocumentSelector(h, n)
    [] h[n].kind = "edge" ->
         Then(Then(buildEdges(h, n), n, buildStartingVertexId), n, buildEdgeSelector)
    [] h[n].kind \in {"base", "view"} -> Throw(h, "NotImplemented")

\* --------------------------------------------------------- filter flattener
isFilterPrimitiveType(filter) ==
  filter.t \in {"string", "number", "boolean", "undefined", "null", "array"}

isFilterProperFilterObject(filter) ==
  /\ hasOwnProperty(filter, "@value")
  /\ isFilterPrimitiveType(Prop(filter, "@value"))
  /\ (hasOwnProperty(filter, "@operator") \/ hasOwnProperty(filter, "@docNameToFilter"))

\* The leaf branch of extractFilters once both names are allocated: t1 is
\* the tick of docPath, t2 of bindVarName.  filter[key]['@docNameToFilter']
\* throws a TypeError when filter[key] is null or undefined.
LeafQuery(doc, fk, t1, t2) ==
  LET alias == Prop(fk, "@docNameToFilter")
      operator == Prop(fk, "@operator")
  IN << IF Nullish(alias) THEN Id(doc) ELSE Id(alias.s[1]),
        Kw("."), Bind("path", t1),
        IF Nullish(operator) THEN Kw("==") ELSE Op(operator.s[1]),
        Bind("filter", t2) >>

LeafValue(fk) == IF Nullish(Prop(fk, "@value")) THEN fk ELSE Prop(fk, "@value")

LeafBindVars(fk, objectKey, t1, t2) ==
  SetVar(SetVar(EmptyVars, Bind("path", t1), VArr(split(objectKey))),
         Bind("filter", t2), LeafValue(fk))

\* prevKey after the non-leaf entry key was met: prevKey += `${key}.`
NextPrevKey(prevKey, key) == prevKey \o <<key, ".">>

\* extractFilters(filter, prevKey): [h, err, filters]; the loop over the
\* entries of filter from entry i on, filters being those pushed so far
RECURSIVE ExtractLoop(_, _, _, _, _, _)
ExtractLoop(h, n, entries, i, prevKey, filters) ==
  IF i > Len(entries) THEN [h |-> h, err |-> "ok", filters |-> filters]
  ELSE
    LET key == entries[i].key
        fk == entries[i].val
    IN
    IF isFilterPrimitiveType(fk) \/ isFilterProperFilterObject(fk)
    THEN
      IF Hangs(h, n) THEN [h |-> h, err |-> "hang", filters |-> filters]
      ELSE
        LET objectKey == prevKey \o <<key>>
            h1 == getNextGlobalTick(h, n).h
            t1 == getNextGlobalTick(h, n).t
            h2 == getNextGlobalTick(h1, n).h
            t2 == getNextGlobalTick(h1, n).t
        IN IF Nullish(fk)
           THEN [h |-> h2, err |-> "TypeError", filters |-> filters]
           ELSE ExtractLoop(h2, n, entries, i + 1, prevKey,
                  Append(filters, [query |-> LeafQuery(h[n].doc, fk, t1, t2),
                                   bindVars |-> LeafBindVars(fk, objectKey, t1, t2)]))
    ELSE
      LET prevKey2 == NextPrevKey(prevKey, key)
          r == ExtractLoop(h, n, fk.sub, 1, prevKey2, << >>)
      IN IF r.err # "ok"
         THEN [h |-> r.h, err |-> r.err, filters |-> filters]
         ELSE ExtractLoop(r.h, n, entries, i + 1, prevKey2, filters \o r.filters)

extractFilters(h, n, filter) == ExtractLoop(h, n, filter.sub, 1, << >>, << >>)

\* filters.map((e) => e.query).join(' && ')
RECURSIVE JoinAnd(_)
JoinAnd(filters) ==
  IF filters = << >> THEN << >>
  ELSE IF Len(filters) = 1 THEN filters[1].query
  ELSE filters[1].query \o <<Kw("&&")>> \o JoinAnd(Tail(filters))

\* for (let filter of filters) this.bindVars = {...filter.bindVars, ...this.bindVars}
RECURSIVE MergeFilterVars(_, _)
MergeFilterVars(bindVars, filters) ==
  IF filters = << >> THEN bindVars
  ELSE MergeFilterVars(Spread(filters[1].bindVars, bindVars), Tail(filters))

buildFilter(h, n) ==
  IF ~options[n].filterBy.present THEN Ok(h)
  ELSE LET r == extractFilters(h, n, options[n].filterBy.filter) IN
       IF r.err # "ok" THEN Throw(r.h, r.err)
       ELSE Ok([r.h EXCEPT
                  ![n].filter = <<Kw("FILTER")>> \o JoinAnd(r.filters),
                  ![n].bindVars = MergeFilterVars(@, r.filters)])

buildSort(h, n) ==
  IF ~options[n].sortBy.present THEN Ok(h)
  ELSE IF Hangs(h, n) THEN Throw(h, "hang")
  ELSE LET h1 == getNextGlobalTick(h, n).h
           sortFieldKey == Bind("sortField", getNextGlobalTick(h, n).t)
           h2 == getNextGlobalTick(h1, n).h
           sortOrderKey == Bind("sortOrder", getNextGlobalTick(h1, n).t)
       IN Ok([h2 EXCEPT
                ![n].sort = <<Kw("SORT"), Id(h[n].doc), Kw("."), sortFieldKey, sortOrderKey>>,
                ![n].bindVars =
                    SetVar(SetVar(@, sortFieldKey, VArr(split(options[n].sortBy.field))),
                           sortOrderKey, VStr(options[n].sortBy.order))])

buildLimit(h, n) ==
  IF ~options[n].limitBy.present THEN Ok(h)
  ELSE IF Hangs(h, n) THEN Throw(h, "hang")
  ELSE LET h1 == getNextGlobalTick(h, n).h
           offsetKey == Bind("limitByOffset", getNextGlobalTick(h, n).t)
           h2 == getNextGlobalTick(h1, n).h
           limitKey == Bind("limitByLimit", getNextGlobalTick(h1, n).t)
       IN Ok([h2 EXCEPT
                ![n].limit = <<Kw("LIMIT"), offsetKey, Kw(","), limitKey>>,
                ![n].bindVars =
                    SetVar(SetVar(@, offsetKey, VNum(options[n].limitBy.offset)),
                           limitKey, VNum(options[n].limitBy.limit))])

\* ----------------------------------------------------------------- assembly
\* if (relatedCollections): an array is truthy, a string unless it is empty
Truthy(v) == v.t = "array" \/ (v.t = "string" /\ v.s[1] # "")

\* gatherRelatedCollectionsRecursively(): [err, targets].  fuel is the
\* number of nested calls left; it runs out only on a chain of children that
\* repeats a node, where the recursion never ends (RangeError).
RECURSIVE GatherLoop(_, _, _, _, _)
gatherRelatedCollectionsRecursively(h, n, fuel) ==
  IF fuel = 0 THEN [err |-> "RangeError", targets |-> << >>]
  ELSE GatherLoop(h, h[n].additionalQueries, 1, fuel,
         IF Truthy(options[n].relatedCollections)
         THEN options[n].relatedCollections.s ELSE << >>)

GatherLoop(h, elems, i, fuel, targets) ==
  IF i > Len(elems) THEN [err |-> "ok", targets |-> targets]
  ELSE LET r == gatherRelatedCollectionsRecursively(h, elems[i].q, fuel - 1) IN
       IF r.err # "ok" THEN r
       ELSE GatherLoop(h, elems, i + 1, fuel, targets \o r.targets)

buildWithClause(h, n) ==
  IF ~h[n].isRootQuery THEN Ok(h)
  ELSE LET g == gatherRelatedCollectionsRecursively(h, n, Cardinality(DOMAIN h) + 1) IN
       IF g.err # "ok" THEN Throw(h, g.err)
       ELSE IF Len(g.targets) = 0 THEN Ok(h)
       ELSE LET r == handleCommaSeparated(h, n, g.targets, "target") IN
            IF r.err # "ok" THEN Throw(r.h, r.err)
            ELSE Ok([r.h EXCEPT ![n].withClause = <<Kw("WITH")>> \o r.text])

\* Array.from(this.additionalQueries.keys()).join(', ')
RECURSIVE JoinKeys(_)
JoinKeys(elems) ==
  IF elems = << >> THEN << >>
  ELSE IF Len(elems) = 1 THEN <<Id(elems[1].name)>>
  ELSE <<Id(elems[1].name), Kw(",")>> \o JoinKeys(Tail(elems))

\* buildReturnClause projecting the row alias whatever the children
buildReturnClauseAliasOnly(h, n) == Ok([h EXCEPT ![n].returnClause = <<Id(h[n].doc)>>])

buildReturnClause(h, n) ==
  IF Len(h[n].additionalQueries) = 0
  THEN Ok([h EXCEPT ![n].returnClause = <<Id(h[n].doc)>>])
  ELSE Ok([h EXCEPT ![n].returnClause =
             <<Kw("MERGE("), Id(h[n].doc), Kw(", {")>>
             \o JoinKeys(h[n].additionalQueries) \o <<Kw("})")>>])

\* The FIRST condition for any child that has a limit
ReducedToFirstAnyLimit(c) == options[c].withCount \/ options[c].limitBy.present

\* elem[1].options.withCount || elem[1].options.limitBy?.limit === 1
ReducedToFirst(c) ==
  options[c].withCount \/ (options[c].limitBy.present /\ options[c].limitBy.limit = 1)

\* prepareQuery with the count taken over the whole docs binding
QueryTextCountingPage(h, n) ==
  IF options[n].withCount
  THEN h[n].withClause \o <<Kw("LET total = FIRST(")>> \o h[n].selector \o h[n].filter
       \o h[n].sort \o h[n].limit
       \o <<Kw("COLLECT WITH COUNT INTO length RETURN length)"), Kw("LET docs = (")>>
       \o h[n].selector \o h[n].filter \o h[n].sort \o h[n].limit \o h[n].inlineQueries
       \o <<Kw("RETURN")>> \o h[n].returnClause \o <<Kw(")"), Kw("RETURN { docs, total }")>>
  ELSE h[n].withClause \o h[n].selector \o h[n].filter \o h[n].sort \o h[n].limit
       \o h[n].inlineQueries \o <<Kw("RETURN")>> \o h[n].returnClause

\* The query text prepareQuery() assembles from the fields of node n
QueryText(h, n) ==
  IF options[n].withCount
  THEN h[n].withClause \o <<Kw("LET total = FIRST(")>> \o h[n].selector \o h[n].filter
       \o <<Kw("COLLECT WITH COUNT INTO length RETURN length)"), Kw("LET docs = (")>>
       \o h[n].selector \o h[n].filter \o h[n].sort \o h[n].limit \o h[n].inlineQueries
       \o <<Kw("RETURN")>> \o h[n].returnClause \o <<Kw(")"), Kw("RETURN { docs, total }")>>
  ELSE h[n].withClause \o h[n].selector \o h[n].filter \o h[n].sort \o h[n].limit
       \o h[n].inlineQueries \o <<Kw("RETURN")>> \o h[n].returnClause

NoQuery(h, e) == [h |-> h, err |-> e, query |-> << >>, bindVars |-> EmptyVars]

\* prepareQuery(): [h, err, query, bindVars].  fuel is the number of nested
\* prepareQuery() calls left; as in gatherRelatedCollectionsRecursively it
\* runs out only where the recursion never ends.
RECURSIVE prepareQuery(_, _, _)
RECURSIVE AdditionalLoop(_, _, _, _, _, _)
\* AdditionalLoop leaving out a child whose prepareQuery() throws
AdditionalLoopCatching(h, n, elems, i, fuel, queries) ==
  IF i > Len(elems) THEN Ok([h EXCEPT ![n].inlineQueries = queries])
  ELSE LET c == elems[i].q
           inner == prepareQuery(h, c, fuel - 1)
       IN IF inner.err # "ok"
          THEN AdditionalLoop(inner.h, n, elems, i + 1, fuel, queries)
          ELSE AdditionalLoop(
                 [inner.h EXCEPT ![n].bindVars = Spread(inner.bindVars, @)],
                 n, elems, i + 1, fuel,
                 queries \o <<Kw("LET"), Id(elems[i].name), Kw("=")>>
                   \o (IF ReducedToFirst(c) THEN <<Kw("FIRST")>> ELSE << >>)
                   \o <<Kw("(")>> \o inner.query \o <<Kw(")")>>)

AdditionalLoop(h, n, elems, i, fuel, queries) ==
  IF i > Len(elems) THEN Ok([h EXCEPT ![n].inlineQueries = queries])
  ELSE LET c == elems[i].q
           inner == prepareQuery(h, c, fuel - 1)
       IN IF inner.err # "ok" THEN Throw(inner.h, inner.err)
          ELSE AdditionalLoop(
                 [inner.h EXCEPT ![n].bindVars = Spread(inner.bindVars, @)],
                 n, elems, i + 1, fuel,
                 queries \o <<Kw("LET"), Id(elems[i].name), Kw("=")>>
                   \o (IF ReducedToFirst(c) THEN <<Kw("FIRST")>> ELSE << >>)
                   \o <<Kw("(")>> \o inner.query \o <<Kw(")")>>)

buildAdditionalQueries(h, n, fuel) ==
  IF Len(h[n].additionalQueries) = 0 THEN Ok(h)
  ELSE AdditionalLoop(h, n, h[n].additionalQueries, 1, fuel, << >>)

\* buildEverything with the declaration clause built before the selector
buildEverythingDeclaringFirst(h, n, fuel) ==
  Then(Then(Then(Then(Then(Then(buildWithClause(h, n),
    n, buildSelector), n, buildFilter), n, buildSort), n, buildLimit),
    n, buildReturnClause), n, LAMBDA hh, nn : buildAdditionalQueries(hh, nn, fuel))

buildEverything(h, n, fuel) ==
  Then(Then(Then(Then(Then(Then(buildSelector(h, n),
    n, buildFilter), n, buildSort), n, buildLimit), n, buildWithClause),
    n, buildReturnClause), n, LAMBDA hh, nn : buildAdditionalQueries(hh, nn, fuel))

prepareQuery(h, n, fuel) ==
  IF fuel = 0 THEN NoQuery(h, "RangeError")
  ELSE LET r == buildEverything(h, n, fuel) IN
       IF r.err # "ok" THEN NoQuery(r.h, r.err)
       ELSE [h |-> r.h, err |-> "ok", query |-> QueryText(r.h, n),
             bindVars |-> r.h[n].bindVars]

\* ------------------------------------------------------------ construction
DefaultDoc(kind) ==
  CASE kind = "edge" -> "vertex"
    [] kind = "view" -> "res"
    [] kind \in {"base", "document"} -> "doc"

\* The fields of a builder of class kind after its constructor
NewBuilder(kind) ==
  [kind |-> kind, doc |-> DefaultDoc(kind), returnClause |-> <<Id(DefaultDoc(kind))>>,
   rootDoc |-> "", additionalQueries |-> << >>, parent |-> NoNode,
   isRootQuery |-> TRUE, tick |-> 0, bindVars |-> EmptyVars,
   withClause |-> << >>, selector |-> << >>, filter |-> << >>, sort |-> << >>,
   limit |-> << >>, inlineQueries |-> << >>, edges |-> << >>,
   startingVertexId |-> << >>]

NoSort == [present |-> FALSE, field |-> << >>, order |-> ""]
NoLimit == [present |-> FALSE, offset |-> 0, limit |-> 0]
NoFilter == [present |-> FALSE, filter |-> VObj(<< >>)]
SortBy(field, order) == [present |-> TRUE, field |-> field, order |-> order]
LimitBy(offset, limit) == [present |-> TRUE, offset |-> offset, limit |-> limit]
FilterBy(entries) == [present |-> TRUE, filter |-> VObj(entries)]

\* ArangoDocumentQueryOptions
DocumentOptions(collection) ==
  [documentCollection |-> collection, edgeCollections |-> VUndefined,
   relatedCollections |-> VUndefined, startingVertexId |-> "",
   depth |-> VUndefined, direction |-> VUndefined, withCount |-> FALSE,
   sortBy |-> NoSort, limitBy |-> NoLimit, filterBy |-> NoFilter]

\* ArangoEdgeQueryOptions as the caller gives them
EdgeOptions(edgeCollections, relatedCollections) ==
  [DocumentOptions("") EXCEPT !.edgeCollections = edgeCollections,
                              !.relatedCollections = relatedCollections]

\* The edge constructor: depth ??= 1, direction ??= Direction.Any
EdgeConstructor(o) ==
  [o EXCEPT !.depth = IF Nullish(@) THEN VNum(1) ELSE @,
            !.direction = IF Nullish(@) THEN VStr("ANY") ELSE @]

Construct(kind, o) == IF kind = "edge" THEN EdgeConstructor(o) ELSE o

\* ------------------------------------------------------- public operations
\* Each maps the heap to [h, err] as the build steps do.
setDocSelector(h, n, doc) ==
  IF ~checkSafe(doc) THEN Throw(h, "UnsafeIdentifier")
  ELSE Ok([h EXCEPT ![n].doc = doc])

setRootDocSelector(h, n, doc) ==
  IF ~checkSafe(doc) THEN Throw(h, "UnsafeIdentifier")
  ELSE Ok([h EXCEPT ![n].rootDoc = doc])

setParentQuery(h, c, parent) ==
  [h EXCEPT ![c].isRootQuery = FALSE, ![c].parent = parent]

\* Map.prototype.set: a present key keeps its place and gets the new value
MapSet(elems, name, c) ==
  IF \E i \in 1..Len(elems) : elems[i].name = name
  THEN [i \in 1..Len(elems) |->
          IF elems[i].name = name THEN [name |-> name, q |-> c] ELSE elems[i]]
  ELSE Append(elems, [name |-> name, q |-> c])

\* addAdditionalQuery without the comparison with the doc selector
addAdditionalQueryUnchecked(h, n, varName, c) ==
  IF ~checkSafe(varName) THEN Throw(h, "UnsafeIdentifier")
  ELSE Ok([setParentQuery(h, c, n) EXCEPT
             ![n].additionalQueries = MapSet(@, varName, c)])

addAdditionalQuery(h, n, varName, c) ==
  IF ~checkSafe(varName) THEN Throw(h, "UnsafeIdentifier")
  ELSE IF varName = h[n].doc THEN Throw(h, "DuplicateFieldName")
  ELSE LET h1 == setParentQuery(h, c, n) IN
       Ok([h1 EXCEPT ![n].additionalQueries = MapSet(@, varName, c)])

\* ----------------------------------------------------------------- actions
Outcome(op, n, arg, c, r) ==
  [op |-> op, node |-> n, arg |-> arg, child |-> c, err |-> r.err,
   query |-> IF "query" \in DOMAIN r THEN r.query ELSE << >>,
   bindVars |-> IF "bindVars" \in DOMAIN r THEN r.bindVars ELSE EmptyVars]

NoOutcome ==
  [op |-> "new", node |-> NoNode, arg |-> "", child |-> NoNode, err |-> "ok",
   query |-> << >>, bindVars |-> EmptyVars]

\* A call that never returns ("hang") is the last one the caller makes.
Call(op, n, arg, c, r) ==
  /\ result.err # "hang"
  /\ q' = r.h
  /\ result' = Outcome(op, n, arg, c, r)
  /\ nops' = nops + 1
  /\ UNCHANGED options

SetDocSelector(n, doc) == Call("setDocSelector", n, doc, NoNode, setDocSelector(q, n, doc))

SetRootDocSelector(n, doc) ==
  /\ q[n].kind = "edge"
  /\ Call("setRootDocSelector", n, doc, NoNode, setRootDocSelector(q, n, doc))

AddAdditionalQuery(n, varName, c) ==
  Call("addAdditionalQuery", n, varName, c, addAdditionalQuery(q, n, varName, c))

PrepareQuery(n) ==
  Call("prepareQuery", n, "", NoNode, prepareQuery(q, n, NumNodes + 1))

\* --------------------------------------------------- the tree specification
\* Query specifications given to the constructors (taken from the tests)
ManifestFilter == <<Entry("gitRepoInfo", VObj(<<Entry("owner", VStr("Tospaa"))>>))>>

PDocFiltered ==
  [kind |-> "document",
   options |-> [DocumentOptions("manifest") EXCEPT !.filterBy = FilterBy(ManifestFilter)]]
PDocPaged ==
  [kind |-> "document",
   options |-> [DocumentOptions("data_sources") EXCEPT
                  !.limitBy = LimitBy(0, 1), !.sortBy = SortBy(<<"createdTs">>, "DESC")]]
PEdgePlain ==
  [kind |-> "edge", options |-> EdgeOptions(VStr("tospaa"), VStr("afyon"))]
PEdgeCounted ==
  [kind |-> "edge",
   options |-> [EdgeOptions(VArr(<<"edge_collection", "other_edge_collection">>),
                            VArr(<<"related_collection", "other_related_collection">>))
                EXCEPT !.startingVertexId = "deneme/1-2", !.withCount = TRUE,
                       !.limitBy = LimitBy(3, 2),
                       !.sortBy = SortBy(<<"foo", ".", "bar">>, "ASC"),
                       !.depth = VNum(2), !.direction = VStr("OUTBOUND")]]
PEdgeInvalidStart ==
  [kind |-> "edge",
   options |-> [EdgeOptions(VStr("edge"), VStr("related")) EXCEPT
                  !.startingVertexId = "invalid"]]

TreePresets(n) ==
  CASE n = 1 -> {PDocFiltered, PEdgeCounted}
    [] n = 2 -> {PDocPaged, PEdgePlain}
    [] n = 3 -> {PEdgePlain, PEdgeCounted, PEdgeInvalidStart}
    [] OTHER -> {PEdgePlain}

TreeSelectors == {"rootDoc"}
TreeFieldNames == {"related", "inner"}

\* The assignments of one preset of Presets(n) to every node n <= k
RECURSIVE Assignments(_, _)
Assignments(presets, k) ==
  IF k = 0 THEN {<< >>}
  ELSE {Append(a, p) : a \in Assignments(presets, k - 1), p \in presets[k]}

InitWith(Presets(_)) ==
  /\ \E preset \in Assignments([n \in Nodes |-> Presets(n)], NumNodes) :
       /\ options = [n \in Nodes |-> Construct(preset[n].kind, preset[n].options)]
       /\ q = [n \in Nodes |-> NewBuilder(preset[n].kind)]
  /\ result = NoOutcome
  /\ nops = 0

\* Builders are attached to builders constructed before them, so the child
\* relation has no cycle (a builder may still be attached twice).
Init == InitWith(TreePresets)

Next ==
  /\ nops < MaxOps
  /\ \/ \E n \in Nodes, doc \in TreeSelectors : SetDocSelector(n, doc)
     \/ \E n \in Nodes, doc \in TreeSelectors : SetRootDocSelector(n, doc)
     \/ \E n \in Nodes, c \in Nodes, varName \in TreeFieldNames :
          n < c /\ AddAdditionalQuery(n, varName, c)
     \/ \E n \in Nodes : PrepareQuery(n)

Spec == Init /\ [][Next]_vars

\* ----------------------------------------------- the guard specification
\* The guarded setters on every string of GuardStrings, in any order and
\* between any two builders.
MaxGuardOps == 2

PView == [kind |-> "view", options |-> DocumentOptions("manifest")]

GuardPresets(n) ==
  CASE n = 1 -> {PDocFiltered}
    [] n = 2 -> {PEdgePlain, PView}
    [] OTHER -> {PEdgePlain}

GuardStrings == {"", "1a", "-a", "_a", "doc//", "doc", "rootDoc", "a-b_1"}

GuardInit == InitWith(GuardPresets)

GuardNext ==
  /\ nops < MaxGuardOps
  /\ \/ \E n \in Nodes, doc \in GuardStrings : SetDocSelector(n, doc)
     \/ \E n \in Nodes, doc \in GuardStrings : SetRootDocSelector(n, doc)
     \/ \E n \in Nodes, c \in Nodes, varName \in GuardStrings :
          AddAdditionalQuery(n, varName, c)

SpecGuard == GuardInit /\ [][GuardNext]_vars

\* ------------------------------------------------ the leaf specification
\* One builder prepared on its own, over a family of filter specifications.
MaxLeafOps == 2

Operators == {"==", "!=", "<", ">", "<=", ">="}
Directions == {"OUTBOUND", "INBOUND", "ANY"}

FilterObj(value, operator, docNameToFilter) ==
  VObj(<<Entry("@value", value)>>
       \o (IF Nullish(operator) THEN << >> ELSE <<Entry("@operator", operator)>>)
       \o (IF Nullish(docNameToFilter) THEN << >>
           ELSE <<Entry("@docNameToFilter", docNameToFilter)>>))

LeafValues ==
  { VStr("Tospaa"), VNum(12), VArr(<<"x", "y">>), VNull, VUndefined,
    FilterObj(VStr("v"), VStr("!="), VUndefined),
    FilterObj(VStr("v"), VStr("== 1 ||"), VUndefined),
    FilterObj(VNum(7), VUndefined, VStr("rootDoc")),
    FilterObj(VStr("v"), VStr(">="), VStr("x || 1")),
    FilterObj(VNull, VStr("!="), VUndefined),
    FilterObj(VStr("v"), VUndefined, VUndefined) }

\* The objects with keys k1 (and k2), values from vals, and the empty one
Objects(k1, k2, vals) ==
  {<< >>} \cup {<<Entry(k1, v)>> : v \in vals}
          \cup {<<Entry(k1, v[1]), Entry(k2, v[2])>> : v \in vals \X vals}

LeafFilters ==
  Objects("a", "d", LeafValues \cup {VObj(o) : o \in Objects("b", "c", LeafValues)})
  \cup { <<Entry("a", VObj(<<Entry("b", VObj(<<Entry("c", VStr("x"))>>)),
                             Entry("d", VNum(1))>>)),
           Entry("e", VNum(2))>> }

PDocWith(filter) ==
  [kind |-> "document",
   options |-> [DocumentOptions("manifest") EXCEPT !.filterBy = FilterBy(filter)]]
PEdgeDirected(direction) ==
  [kind |-> "edge",
   options |-> [EdgeOptions(VStr("tospaa"), VStr("afyon")) EXCEPT
                  !.startingVertexId = "deneme/1-2", !.direction = direction,
                  !.filterBy = FilterBy(ManifestFilter)]]

LeafPresets(n) ==
  CASE n = 1 -> {PDocWith(f) : f \in LeafFilters}
                \cup {PEdgeDirected(d) :
                        d \in {VUndefined, VStr("INBOUND"), VStr("ANY x")}}
    [] OTHER -> {PEdgePlain}

LeafInit == InitWith(LeafPresets)

LeafNext ==
  /\ nops < MaxLeafOps
  /\ \/ \E doc \in TreeSelectors : SetDocSelector(1, doc)
     \/ PrepareQuery(1)

SpecLeaf == LeafInit /\ [][LeafNext]_vars

\* ==================================================================== claims
Kids(h, m) == {h[m].additionalQueries[i].q : i \in 1..Len(h[m].additionalQueries)}

RECURSIVE Reach(_, _, _)
Reach(h, S, k) ==
  IF k = 0 THEN S ELSE Reach(h, S \cup UNION {Kids(h, m) : m \in S}, k - 1)
\* The nodes assembled by prepareQuery() on n
Subtree(h, n) == Reach(h, {n}, Cardinality(DOMAIN h))

\* n has no parent and every node below it is listed by its parent only
ValidTree(h, n) ==
  /\ h[n].parent = NoNode
  /\ \A m \in Subtree(h, n) : \A c \in Kids(h, m) : h[c].parent = m

Placeholders(text) ==
  {text[i] : i \in {j \in DOMAIN text : text[j].k \in {"bind", "coll"}}}

\* The names node m generated for its own clauses, one per place of use
OwnNames(h, m) ==
  SelectSeq(h[m].withClause \o h[m].selector \o h[m].filter \o h[m].sort \o h[m].limit,
            LAMBDA t : t.k \in {"bind", "coll"})

NoRepeat(names) ==
  \A i, j \in DOMAIN names : names[i] = names[j] => i = j

Prepared(r) == r.op = "prepareQuery" /\ r.err = "ok"

\* C1: when prepareQuery() succeeds on the root of a valid tree none of
\* whose other nodes ever allocated from a counter of its own, no name is
\* generated twice (neither by two clauses of a node nor by two nodes of
\* the tree), every generated name is a key of the returned bindVars, and
\* every placeholder of the returned text is a key of the returned bindVars.
C1_UniqueNames ==
  [][ ( /\ Prepared(result')
        /\ ValidTree(q, result'.node)
        /\ \A m \in Subtree(q, result'.node) \ {result'.node} : q[m].tick = 0 )
      => ( /\ \A m \in Subtree(q, result'.node) :
                /\ NoRepeat(OwnNames(q', m))
                /\ Range(OwnNames(q', m)) \subseteq DOMAIN result'.bindVars
                /\ \A m2 \in Subtree(q, result'.node) \ {m} :
                     Range(OwnNames(q', m)) \cap Range(OwnNames(q', m2)) = {}
           /\ Placeholders(result'.query) \subseteq DOMAIN result'.bindVars ) ]_vars

C1_Witness ==
  /\ Prepared(result)
  /\ ValidTree(q, result.node)
  /\ Cardinality(Subtree(q, result.node)) = NumNodes
  /\ \A m \in Subtree(q, result.node) \ {result.node} : q[m].tick = 0
  /\ Cardinality(DOMAIN result.bindVars) >= 8

\* C2: no comparison operator and no traversal direction given by the
\* caller is copied into the text unvalidated: every operator token of a
\* returned text is one of the comparison operators and every direction
\* token one of the directions.
C2_NoRawCallerToken ==
  Prepared(result) =>
    \A i \in DOMAIN result.query :
      /\ result.query[i].k = "op" => result.query[i].s \in Operators
      /\ result.query[i].k = "dir" => result.query[i].s \in Directions

\* The alias overrides ('@docNameToFilter') of the leaf filter objects of a
\* filter specification
RECURSIVE AliasOverrides(_)
AliasOverrides(filter) ==
  UNION { LET fk == filter.sub[i].val IN
          IF isFilterPrimitiveType(fk) THEN {}
          ELSE IF isFilterProperFilterObject(fk)
          THEN IF hasOwnProperty(fk, "@docNameToFilter")
               THEN {Prop(fk, "@docNameToFilter").s[1]} ELSE {}
          ELSE AliasOverrides(fk) : i \in 1..Len(filter.sub) }

\* C3: a leaf filter object whose alias override does not pass the
\* identifier guard makes prepareQuery() fail with UnsafeIdentifier.
C3_AliasOverrideGuarded ==
  ( /\ result.op = "prepareQuery"
    /\ options[result.node].filterBy.present
    /\ \E a \in AliasOverrides(options[result.node].filterBy.filter) :
         ~MatchesIdentifier(Chars(a)) )
  => result.err = "UnsafeIdentifier"

\* C4: setDocSelector, setRootDocSelector and addAdditionalQuery called with
\* a string that does not match ^[A-Za-z][A-Za-z0-9\-_]*$ fail with
\* UnsafeIdentifier and leave every builder as it was.
C4_UnsafeRejected ==
  [][ ( /\ result'.op \in {"setDocSelector", "setRootDocSelector", "addAdditionalQuery"}
        /\ ~MatchesIdentifier(Chars(result'.arg)) )
      => ( result'.err = "UnsafeIdentifier" /\ q' = q ) ]_vars

C4_Witness ==
  /\ result.op = "addAdditionalQuery"
  /\ result.err = "UnsafeIdentifier"
  /\ result.arg \in {"", "1a", "-a", "_a"}
  /\ q[result.node].additionalQueries # << >>
  /\ q[result.child].parent = NoNode

\* The leaf paths of a filter specification, each the keys from the root of
\* the specification to the leaf
RECURSIVE KeyPaths(_, _)
KeyPaths(filter, prefix) ==
  Flatten([i \in 1..Len(filter.sub) |->
    LET fk == filter.sub[i].val
        path == Append(prefix, filter.sub[i].key)
    IN IF isFilterPrimitiveType(fk) \/ isFilterProperFilterObject(fk)
       THEN <<path>> ELSE KeyPaths(fk, path)])

\* The values bound to the placeholders named base of text, in text order
BoundTo(text, base, bindVars) ==
  LET keys == SelectSeq(text, LAMBDA t : t.k = "bind" /\ t.s = base)
  IN [i \in 1..Len(keys) |-> bindVars[keys[i]]]

\* C5: the leaf conditions of a built filter are in depth-first order and
\* the path bound for each is the sequence of keys from the filter root to
\* the leaf.
C5_KeyPaths ==
  ( Prepared(result) /\ options[result.node].filterBy.present )
  => LET paths == BoundTo(q[result.node].filter, "path", result.bindVars)
     IN [i \in 1..Len(paths) |-> paths[i].s]
          = KeyPaths(options[result.node].filterBy.filter, << >>)

\* C6: a filter whose entries are scalars, arrays of scalars, null or
\* undefined builds, and yields one comparison per entry, with the operator
\* == on the row alias, binding the entry's value.
C6_PrimitiveLeaves ==
  LET n == result.node
      entries == options[n].filterBy.filter.sub
  IN ( /\ result.op = "prepareQuery"
       /\ q[n].kind = "document"
       /\ options[n].filterBy.present
       /\ entries # << >>
       /\ \A i \in 1..Len(entries) : isFilterPrimitiveType(entries[i].val) )
     => /\ result.err = "ok"
        /\ BoundTo(q[n].filter, "filter", result.bindVars)
             = [i \in 1..Len(entries) |-> entries[i].val]
        /\ Len(SelectSeq(q[n].filter, LAMBDA t : t = Kw("=="))) = Len(entries)
        /\ Len(SelectSeq(q[n].filter, LAMBDA t : t = Id(q[n].doc))) = Len(entries)
        /\ \A i \in DOMAIN q[n].filter : q[n].filter[i].k # "op"

\* The ancestor of m that has no parent
RECURSIVE Up(_, _, _)
Up(h, m, k) == IF h[m].parent = NoNode \/ k = 0 THEN m ELSE Up(h, h[m].parent, k - 1)
RootOf(h, m) == Up(h, m, Cardinality(DOMAIN h))

\* The starting vertex of edge node m is placed in its selector after the
\* direction
StartsFrom(h, m, start) ==
  /\ h[m].startingVertexId = start
  /\ SubSeq(h[m].selector, 6, 5 + Len(start)) = start

C8_StartingVertexErrors ==
  [][ LET n == result'.node
          sv == options[n].startingVertexId
      IN ( result'.op = "prepareQuery" /\ q[n].kind = "edge" ) =>
           /\ ( sv = "" /\ q[n].rootDoc = "" /\ q[n].parent = NoNode )
                => ( /\ result'.err = "MissingStartingVertex"
                     /\ result'.query = << >> /\ result'.bindVars = EmptyVars )
           /\ ( sv # "" /\ ~MatchesArangoId(Chars(sv)) )
                => ( /\ result'.err = "InvalidVertexReference"
                     /\ result'.query = << >> /\ result'.bindVars = EmptyVars ) ]_vars

C8_Witness ==
  /\ result.op = "prepareQuery"
  /\ result.err = "InvalidVertexReference"
  /\ options[result.node].startingVertexId = "invalid"
  /\ q[result.node].parent # NoNode
  /\ q[result.node].rootDoc # ""

C10_DuplicateFieldName ==
  [][ ( /\ result'.op = "addAdditionalQuery"
        /\ result'.arg = q[result'.node].doc )
      => ( result'.err = "DuplicateFieldName" /\ q' = q ) ]_vars

C10_Witness ==
  /\ result.op = "addAdditionalQuery"
  /\ result.err = "DuplicateFieldName"
  /\ result.arg = "rootDoc"
  /\ q[result.node].doc = "rootDoc"

\* The field names of the child map of node m, in insertion order
FieldNames(h, m) == [i \in 1..Len(h[m].additionalQueries) |-> h[m].additionalQueries[i].name]

\* C11: whatever setDocSelector and addAdditionalQuery calls were made, the
\* field names of every node's child map are pairwise different and none
\* of them is the node's current row alias.
C11_FieldNamesApartFromAlias ==
  \A n \in Nodes :
    /\ NoRepeat(FieldNames(q, n))
    /\ q[n].doc \notin Range(FieldNames(q, n))

\* ------------------------------------------------ the build specification
\* Trees of builders of every class, some of which cannot be built, attached
\* and prepared in any order.
MaxBuildOps == 3

StatusFilter == ManifestFilter \o <<Entry("status", VStr("InTest"))>>

PDocCounted ==
  [kind |-> "document",
   options |-> [DocumentOptions("manifest") EXCEPT
                  !.filterBy = FilterBy(StatusFilter), !.withCount = TRUE,
                  !.limitBy = LimitBy(0, 10), !.sortBy = SortBy(<<"createdTs">>, "DESC")]]
PEdgeLimited ==
  [kind |-> "edge",
   options |-> [EdgeOptions(VStr("tospaa"), VStr("afyon")) EXCEPT
                  !.limitBy = LimitBy(0, 2)]]
PBase ==
  [kind |-> "base",
   options |-> [DocumentOptions("some") EXCEPT
                  !.filterBy = FilterBy(ManifestFilter), !.limitBy = LimitBy(0, 1)]]
PDocUnsafe == [kind |-> "document", options |-> DocumentOptions("_users")]

BuildPresets(n) ==
  CASE n = 1 -> {PDocFiltered, PDocCounted, PEdgeCounted, PView}
    [] n = 2 -> {PDocPaged, PEdgeLimited, PBase}
    [] n = 3 -> {PEdgeCounted, PDocUnsafe, PEdgeInvalidStart}
    [] OTHER -> {PEdgePlain}

BuildInit == InitWith(BuildPresets)

\* The field name builder c is attached under (a safe name other than the
\* aliases; the names of builders 2 and 3 differ)
BuildField(c) == IF c % 2 = 0 THEN "related" ELSE "inner"

BuildNext ==
  /\ nops < MaxBuildOps
  /\ \/ \E n \in Nodes : SetDocSelector(n, "doc2")
     \/ \E n \in Nodes, c \in Nodes :
          n < c /\ AddAdditionalQuery(n, BuildField(c), c)
     \/ \E n \in Nodes : PrepareQuery(n)

SpecBuild == BuildInit /\ [][BuildNext]_vars

\* The tokens that open and close the two companion bindings of a count
TotalOpen == Kw("LET total = FIRST(")
CountClose == Kw("COLLECT WITH COUNT INTO length RETURN length)")
DocsOpen == Kw("LET docs = (")
PairReturn == Kw("RETURN { docs, total }")

\* The number of parentheses open before token i of text
DepthAt(text, i) ==
  Cardinality({k \in 1..(i - 1) : text[k] \in {Kw("("), TotalOpen, DocsOpen}})
  - Cardinality({k \in 1..(i - 1) : text[k] \in {Kw(")"), CountClose}})

\* The tokens of text that are inside no parentheses
TopLevel(text) == {i \in DOMAIN text : DepthAt(text, i) = 0}

\* C12: the text returned for a node that requests a count has, at its top
\* level, the binding 'total' directly followed by the binding 'docs' and
\* ends with the return of the pair; the fragment counted (selector and
\* filter) is repeated token for token at the start of 'docs' and has no
\* sort, no limit and no inline binding.  The text returned for a node that
\* requests no count has none of the three at its top level and is one
\* FOR ... RETURN statement.
C12_CountCompanions ==
  Prepared(result) =>
    LET text == result.query
        n == result.node
        top == TopLevel(text)
    IN IF options[n].withCount
       THEN \E i \in top : \E j \in (i + 1)..Len(text) :
              /\ text[i] = TotalOpen
              /\ \A k \in top : text[k] = TotalOpen => k = i
              /\ text[j] = CountClose
              /\ \A k \in (i + 1)..(j - 1) : text[k] # CountClose
              /\ text[j + 1] = DocsOpen
              /\ LET counted == SubSeq(text, i + 1, j - 1) IN
                   /\ counted[1] = Kw("FOR")
                   /\ SubSeq(text, j + 2, j + 1 + Len(counted)) = counted
                   /\ Range(counted) \cap {Kw("SORT"), Kw("LIMIT"), Kw("LET"),
                                            Kw("RETURN"), Kw("WITH")} = {}
              /\ text[Len(text) - 1] = Kw(")")
              /\ text[Len(text)] = PairReturn
              /\ Len(text) \in top
       ELSE /\ \A k \in top : text[k] \notin {TotalOpen, DocsOpen, PairReturn}
            /\ Cardinality({k \in top : text[k] = Kw("FOR")}) = 1
            /\ Cardinality({k \in top : text[k] = Kw("RETURN")}) = 1

C12_Witness ==
  /\ Prepared(result)
  /\ options[result.node].withCount
  /\ options[result.node].filterBy.present
  /\ options[result.node].sortBy.present
  /\ \E c \in Kids(q, result.node) : options[c].withCount

\* The related collections of the nodes below and including n, depth first,
\* children in insertion order, with repetitions
RECURSIVE RelatedInTree(_, _, _)
RelatedInTree(h, n, k) ==
  (IF Truthy(options[n].relatedCollections) THEN options[n].relatedCollections.s ELSE << >>)
  \o (IF k = 0 THEN << >>
      ELSE Flatten([i \in 1..Len(h[n].additionalQueries) |->
                      RelatedInTree(h, h[n].additionalQueries[i].q, k - 1)]))

\* text has, from its first token on, WITH and one bound collection
\* placeholder per element of targets, bound to it, separated by commas
DeclaresExactly(text, bindVars, targets) ==
  /\ text[1] = Kw("WITH")
  /\ \A k \in 1..Len(targets) :
       /\ text[2 * k].k = "coll" /\ text[2 * k].s = "target"
       /\ text[2 * k] \in DOMAIN bindVars
       /\ bindVars[text[2 * k]] = VStr(targets[k])
       /\ text[2 * k + 1] = Kw(",") <=> k < Len(targets)

\* C13: the text prepareQuery() returns has a WITH clause only when the
\* node has no parent and its tree has a related collection; the clause is
\* then the start of the text, with one placeholder per related collection
\* of the tree in depth-first order, and WITH occurs nowhere else (no text
\* of a node that has a parent has one).
C13_DeclarationAtRootOnly ==
  Prepared(result) =>
    LET text == result.query
        n == result.node
        targets == RelatedInTree(q, n, NumNodes)
        withs == {i \in DOMAIN text : text[i] = Kw("WITH")}
    IN IF q[n].parent = NoNode /\ targets # << >>
       THEN withs = {1} /\ DeclaresExactly(text, result.bindVars, targets)
       ELSE withs = {}

\* The elements of a set of numbers in ascending order
RECURSIVE Ascending(_)
Ascending(S) ==
  IF S = {} THEN << >>
  ELSE LET m == CHOOSE x \in S : \A y \in S : x <= y
       IN <<m>> \o Ascending(S \ {m})

\* The parenthesis depth of the statement of node n itself in the text
\* prepareQuery() returns for n: inside 'LET docs = (' when n counts
OwnLevel(n) == IF options[n].withCount THEN 1 ELSE 0

\* Where the inline bindings of the node itself start in its text
OwnLets(text, n) ==
  Ascending({i \in DOMAIN text : text[i] = Kw("LET") /\ DepthAt(text, i) = OwnLevel(n)})

\* C14: in the text returned for a node, the k-th inline binding of the
\* node is 'LET <field> = (' or 'LET <field> = FIRST(' for the k-th entry
\* of its child map, closed by ')' before the next binding or the RETURN,
\* and FIRST is there exactly when the child requests a count or has the
\* limit 1.
C14_InlineBindings ==
  Prepared(result) =>
    LET text == result.query
        n == result.node
        lets == OwnLets(text, n)
        elems == q[n].additionalQueries
    IN /\ Len(lets) = Len(elems)
       /\ \A k \in 1..Len(lets) :
            LET i == lets[k]
                c == elems[k].q
                first == options[c].withCount
                         \/ (options[c].limitBy.present /\ options[c].limitBy.limit = 1)
                next == IF k < Len(lets) THEN lets[k + 1]
                        ELSE CHOOSE j \in (i + 1)..Len(text) :
                               /\ text[j] = Kw("RETURN")
                               /\ DepthAt(text, j) = OwnLevel(n)
            IN /\ text[i + 1] = Id(elems[k].name)
               /\ text[i + 2] = Kw("=")
               /\ text[i + 3] = IF first THEN Kw("FIRST") ELSE Kw("(")
               /\ first => text[i + 4] = Kw("(")
               /\ text[next - 1] = Kw(")")

C14_Witness ==
  /\ Prepared(result)
  /\ \E c, d \in Kids(q, result.node) :
       /\ options[c].limitBy.present /\ options[c].limitBy.limit = 2
       /\ ~options[c].withCount
       /\ options[d].withCount

\* Where the statement of node n itself returns in its text
OwnReturn(text, n) ==
  CHOOSE j \in DOMAIN text :
    /\ text[j] = Kw("RETURN") /\ DepthAt(text, j) = OwnLevel(n)
    /\ \A i \in DOMAIN text :
         (text[i] = Kw("RETURN") /\ DepthAt(text, i) = OwnLevel(n)) => i <= j

\* f1, f2, ... as the return clause lists them
RECURSIVE CommaList(_)
CommaList(names) ==
  IF names = << >> THEN << >>
  ELSE IF Len(names) = 1 THEN <<Id(names[1])>>
  ELSE <<Id(names[1]), Kw(",")>> \o CommaList(Tail(names))

\* C15: the text returned for a node with no children has no inline
\* binding of the node and returns the row alias; the text returned for a
\* node with k >= 1 children returns MERGE(<alias>, { f1, ..., fk }) with
\* the field names of the child map in insertion order, and the node's
\* inline bindings are exactly LET f1, ..., LET fk in that order, all
\* before that RETURN.
C15_ReturnClause ==
  Prepared(result) =>
    LET text == result.query
        n == result.node
        names == FieldNames(q, n)
        lets == OwnLets(text, n)
        ret == OwnReturn(text, n)
        end == IF options[n].withCount THEN Len(text) - 2 ELSE Len(text)
        returned == SubSeq(text, ret + 1, end)
    IN /\ [k \in 1..Len(lets) |-> text[lets[k] + 1]] = [k \in 1..Len(names) |-> Id(names[k])]
       /\ \A k \in 1..Len(lets) : lets[k] < ret
       /\ returned = IF names = << >> THEN <<Id(q[n].doc)>>
                     ELSE <<Kw("MERGE("), Id(q[n].doc), Kw(", {")>>
                          \o CommaList(names) \o <<Kw("})")>>

C15_Witness ==
  /\ Prepared(result)
  /\ Len(q[result.node].additionalQueries) = 2
  /\ \E c \in Kids(q, result.node) : options[c].withCount

\* n has no parent, every node below it is listed by its parent only, and
\* only once
ProperTree(h, n) ==
  /\ ValidTree(h, n)
  /\ \A m \in Subtree(h, n) :
       /\ \A i, j \in 1..Len(h[m].additionalQueries) :
            h[m].additionalQueries[i].q = h[m].additionalQueries[j].q => i = j
       /\ \A m2 \in Subtree(h, n) \ {m} : Kids(h, m) \cap Kids(h, m2) = {}

\* The selector of a traversal node with its parts in the order the claim
\* gives (edge collections, starting vertex, depth); the text has the depth
\* first
SelectorParts(h, m) ==
  IF h[m].kind = "edge"
  THEN h[m].edges \o h[m].startingVertexId \o SubSeq(h[m].selector, 1, 5)
  ELSE h[m].selector

\* The names of node m in the order the claim gives: selector, filter,
\* sort, limit, declaration
NamesInOrder(h, m) ==
  SelectSeq(SelectorParts(h, m) \o h[m].filter \o h[m].sort \o h[m].limit
              \o h[m].withClause,
            LAMBDA t : t.k \in {"bind", "coll"})

\* The names of the tree below m: those of m, then each child's subtree
RECURSIVE TreeOrder(_, _, _)
TreeOrder(h, m, k) ==
  NamesInOrder(h, m)
  \o (IF k = 0 THEN << >>
      ELSE Flatten([i \in 1..Len(h[m].additionalQueries) |->
                      TreeOrder(h, h[m].additionalQueries[i].q, k - 1)]))

Times(x, k) == [i \in 1..k |-> x]

\* The base names the query specification of m asks for, in that order
ExpectedBases(h, m, root) ==
  (IF h[m].kind = "edge"
   THEN Times("edge", Len(options[m].edgeCollections.s))
        \o (IF options[m].startingVertexId # "" THEN <<"starting_vertex">> ELSE << >>)
        \o <<"depth">>
   ELSE <<"collection">>)
  \o (IF options[m].filterBy.present
      THEN Flatten(Times(<<"path", "filter">>,
                         Len(KeyPaths(options[m].filterBy.filter, << >>))))
      ELSE << >>)
  \o (IF options[m].sortBy.present THEN <<"sortField", "sortOrder">> ELSE << >>)
  \o (IF options[m].limitBy.present THEN <<"limitByOffset", "limitByLimit">> ELSE << >>)
  \o (IF m = root THEN Times("target", Len(RelatedInTree(h, m, NumNodes))) ELSE << >>)

RECURSIVE ExpectedOrder(_, _, _, _)
ExpectedOrder(h, m, root, k) ==
  ExpectedBases(h, m, root)
  \o (IF k = 0 THEN << >>
      ELSE Flatten([i \in 1..Len(h[m].additionalQueries) |->
                      ExpectedOrder(h, h[m].additionalQueries[i].q, root, k - 1)]))

\* C16: when prepareQuery() succeeds on the root of a tree no node of
\* which was built before, the names of the tree, taken node by node
\* (selector, filter leaves, sort, limit, declaration) and each child's
\* subtree after its parent's own names and before the next sibling, carry
\* the ticks 1, 2, 3, ... without a gap, and their base names are those the
\* query specifications ask for in that order.
C16_TickOrder ==
  [][ LET n == result'.node IN
      ( /\ Prepared(result')
        /\ ProperTree(q, n)
        /\ \A m \in Subtree(q, n) : q[m].tick = 0 /\ q[m].bindVars = EmptyVars )
      => LET order == TreeOrder(q', n, NumNodes) IN
           /\ \A i \in 1..Len(order) : order[i].n = i
           /\ Len(order) = q'[n].tick
           /\ [i \in 1..Len(order) |-> order[i].s] = ExpectedOrder(q, n, n, NumNodes) ]_vars

C16_Witness ==
  /\ Prepared(result)
  /\ ProperTree(q, result.node)
  /\ Cardinality(Subtree(q, result.node)) = 3
  /\ q[result.node].withClause # << >>
  /\ q[result.node].filter # << >>
  /\ q[result.node].tick = Len(TreeOrder(q, result.node, NumNodes))
  /\ q[result.node].tick >= 12

\* The names of the clauses of node m that the step from h to h2 rebuilt
RebuiltNames(h, h2, m) ==
  SelectSeq((IF h2[m].selector # h[m].selector THEN h2[m].selector ELSE << >>)
            \o (IF h2[m].filter # h[m].filter THEN h2[m].filter ELSE << >>)
            \o (IF h2[m].sort # h[m].sort THEN h2[m].sort ELSE << >>)
            \o (IF h2[m].limit # h[m].limit THEN h2[m].limit ELSE << >>)
            \o (IF h2[m].withClause # h[m].withClause THEN h2[m].withClause ELSE << >>),
            LAMBDA t : t.k \in {"bind", "coll"})

\* The ticks of the names allocated in the step from h to h2, node by node
AllocatedTicks(h, h2) ==
  LET names == Flatten([m \in 1..Cardinality(DOMAIN h) |-> RebuiltNames(h, h2, m)])
  IN [i \in 1..Len(names) |-> names[i].n]

\* C17: a prepareQuery() call on any node changes no counter but that of
\* the node with no parent above it; the names it allocates carry
\* pairwise different ticks, all greater than the counter was before and
\* none greater than it is after; and when the call succeeds on a tree
\* whose nodes are each listed once and have used no counter of their own,
\* the ticks are exactly the values following the counter's old value, one
\* by one, up to its new value.
C17_RootCounterOnly ==
  [][ LET n == result'.node
          r == RootOf(q, n)
          ticks == AllocatedTicks(q, q')
      IN result'.op = "prepareQuery" =>
           /\ \A m \in Nodes \ {r} : q'[m].tick = q[m].tick
           /\ NoRepeat(ticks)
           /\ Range(ticks) \subseteq (q[r].tick + 1)..q'[r].tick
           /\ ( /\ result'.err = "ok"
                /\ ProperTree(q, r)
                /\ \A m \in Subtree(q, r) \ {r} : q[m].tick = 0 )
                => Range(ticks) = (q[r].tick + 1)..q'[r].tick ]_vars

\* C18: whatever addAdditionalQuery and prepareQuery calls were made, every
\* node that has a parent has an ancestor with no parent, and its own
\* counter is still 0.
C18_NonRootCounterUnused ==
  \A m \in Nodes :
    q[m].parent # NoNode =>
      /\ q[RootOf(q, m)].parent = NoNode
      /\ q[m].tick = 0

\* C19: prepareQuery() on a node of a class without a selector of its own
\* (the base builder, the view builder) fails with NotImplemented and returns
\* no query, whatever the node's options and children are.
C19_NoSelectorNotImplemented ==
  ( /\ result.op = "prepareQuery"
    /\ q[result.node].kind \in {"base", "view"} )
    => /\ result.err = "NotImplemented"
       /\ result.query = << >>
       /\ result.bindVars = EmptyVars

\* prepareQuery() was called on a base builder that has a filter, a limit and
\* a child, or on a view builder that has a child
C19_Witness ==
  /\ result.op = "prepareQuery"
  /\ q[result.node].kind \in {"base", "view"}
  /\ Len(q[result.node].additionalQueries) > 0
  /\ \/ q[result.node].kind = "view"
     \/ /\ options[result.node].filterBy.present
        /\ options[result.node].limitBy.present

\* The errors a builder raises while it assembles its own clauses
BuildErrors ==
  {"NotImplemented", "UnsafeIdentifier", "InvalidVertexReference", "MissingStartingVertex"}

\* The outcome of the clauses node m builds for itself, its children left out
OwnError(h, m) == prepareQuery([h EXCEPT ![m].additionalQueries = << >>], m, 1).err

\* The nodes prepareQuery() on m visits, in that order: m, then the subtree
\* of each child in the order of the child map
RECURSIVE BuildOrder(_, _, _)
BuildOrder(h, m, k) ==
  <<m>> \o (IF k = 0 THEN << >>
            ELSE Flatten([i \in 1..Len(h[m].additionalQueries) |->
                            BuildOrder(h, h[m].additionalQueries[i].q, k - 1)]))

\* C20: when a node of the tree below the prepared node raises a build error,
\* prepareQuery() fails with the error of the first such node in build order
\* and returns neither text nor parameters; no ancestor catches or retries
\* it.  (prepareQuery() changes neither the child maps nor what a node's own
\* clauses raise, so both are read in the state the call leaves.)
C20_BuildErrorPropagates ==
  LET n == result.node
      order == BuildOrder(q, n, Cardinality(DOMAIN q))
      faulty == {i \in DOMAIN order : OwnError(q, order[i]) \in BuildErrors}
      first == CHOOSE i \in faulty : \A j \in faulty : i <= j
  IN (result.op = "prepareQuery" /\ faulty # {}) =>
       /\ result.err = OwnError(q, order[first])
       /\ result.query = << >>
       /\ result.bindVars = EmptyVars

\* prepareQuery() on a root failed with the error of its second child after
\* the root and its first child had assembled their clauses
C20_Witness ==
  LET r == result.node IN
  /\ result.op = "prepareQuery"
  /\ result.err \in BuildErrors
  /\ q[r].parent = NoNode
  /\ Len(q[r].additionalQueries) = 2
  /\ LET c1 == q[r].additionalQueries[1].q
         c2 == q[r].additionalQueries[2].q
     IN /\ c1 # c2
        /\ OwnError(q, r) = "ok"
        /\ OwnError(q, c1) = "ok"
        /\ q[r].selector # << >>
        /\ q[c1].selector # << >>
        /\ q[r].inlineQueries = << >>
        /\ OwnError(q, c2) = result.err

\* The nodes linked to m by one child-map entry or one parent reference, in
\* either direction
Linked(h, m) ==
  Kids(h, m) \cup {p \in DOMAIN h : m \in Kids(h, p) \/ h[p].parent = m}
  \cup (IF h[m].parent = NoNode THEN {} ELSE {h[m].parent})

RECURSIVE LinkedWithin(_, _, _)
LinkedWithin(h, S, k) ==
  IF k = 0 THEN S ELSE LinkedWithin(h, S \cup UNION {Linked(h, m) : m \in S}, k - 1)

\* Every node that shares a tree with n
TreeOf(h, n) == LinkedWithin(h, {n}, Cardinality(DOMAIN h))

\* A tree with root n none of whose nodes was built before
FreshTree(h, n) ==
  /\ ProperTree(h, n)
  /\ TreeOf(h, n) = Subtree(h, n)
  /\ \A m \in Subtree(h, n) : h[m].tick = 0 /\ h[m].bindVars = EmptyVars

\* The trees below a and b have the same shape, field names, aliases and
\* query specifications
RECURSIVE SameShape(_, _, _, _)
SameShape(h, a, b, k) ==
  /\ h[a].kind = h[b].kind
  /\ options[a] = options[b]
  /\ h[a].doc = h[b].doc
  /\ h[a].rootDoc = h[b].rootDoc
  /\ FieldNames(h, a) = FieldNames(h, b)
  /\ k > 0 => \A i \in 1..Len(h[a].additionalQueries) :
                SameShape(h, h[a].additionalQueries[i].q, h[b].additionalQueries[i].q, k - 1)

\* C21: prepareQuery() on n leaves every node outside the tree of n as it
\* was; and when the tree of n is fresh, a second fresh tree of the same
\* shape and specifications that shares no node with it yields, prepared
\* after it, the same outcome, text and parameters, whatever other trees
\* were built before.
C21_DeterministicIsolated ==
  [][ LET n == result'.node IN
      result'.op = "prepareQuery" =>
        /\ \A m \in Nodes \ TreeOf(q, n) : q'[m] = q[m]
        /\ FreshTree(q, n) =>
             \A b \in Nodes \ TreeOf(q, n) :
               (FreshTree(q, b) /\ SameShape(q, n, b, Cardinality(DOMAIN q))) =>
                 LET second == prepareQuery(q', b, Cardinality(DOMAIN q) + 1) IN
                   /\ second.err = result'.err
                   /\ second.query = result'.query
                   /\ second.bindVars = result'.bindVars ]_vars

\* A tree was prepared after an independent tree had been built, and a
\* fresh tree of the same shape and specifications is still to be prepared
C21_Witness ==
  LET n == result.node IN
  /\ Prepared(result)
  /\ q[n].tick > 0
  /\ Len(result.query) > 8
  /\ \E b \in Nodes \ TreeOf(q, n) :
       /\ FreshTree(q, b)
       /\ SameShape(q, n, b, Cardinality(DOMAIN q))
       /\ \E m \in Nodes \ (TreeOf(q, n) \cup TreeOf(q, b)) : q[m].tick > 0

\* text has the tokens of part at consecutive places
Contains(text, part) ==
  \E i \in 0..(Len(text) - Len(part)) : SubSeq(text, i + 1, i + Len(part)) = part

\* C22: prepareQuery() on a document node is never rejected by the
\* identifier guard; and when it returns, the selector of the node stands in
\* the text as FOR <alias> IN <collection placeholder>, the placeholder is
\* bound to the collection name of the query specification, and the name
\* itself is no token of the selector.
C22_CollectionNameBound ==
  LET n == result.node IN
  (result.op = "prepareQuery" /\ q[n].kind = "document") =>
    /\ result.err # "UnsafeIdentifier"
    /\ result.err = "ok" =>
         /\ Len(q[n].selector) = 4
         /\ SubSeq(q[n].selector, 1, 3) = <<Kw("FOR"), Id(q[n].doc), Kw("IN")>>
         /\ q[n].selector[4].k = "coll"
         /\ result.bindVars[q[n].selector[4]] = VStr(options[n].documentCollection)
         /\ Contains(result.query, q[n].selector)
         /\ \A i \in 1..3 : q[n].selector[i].s # options[n].documentCollection

\* The row alias of m is none of the names of scope, and the same holds
\* below m: child i is in the scope of the alias of m and of the field
\* names of the children up to i
RECURSIVE Scoped(_, _, _, _)
Scoped(h, m, scope, k) ==
  /\ h[m].doc \notin scope
  /\ k > 0 =>
       \A i \in 1..Len(h[m].additionalQueries) :
         Scoped(h, h[m].additionalQueries[i].q,
                scope \cup {h[m].doc} \cup {FieldNames(h, m)[j] : j \in 1..i}, k - 1)

\* C23: in the tree of a query returned for a root, the row alias of every
\* node differs from the row alias of each of its ancestors and from every
\* field name in scope at the node: its own, those of its ancestors and
\* those of their earlier siblings.
C23_NoAliasBoundTwice ==
  (Prepared(result) /\ ProperTree(q, result.node)) =>
    Scoped(q, result.node, {}, Cardinality(DOMAIN q))

\* ----------------------------------------------- the repeat specification
\* Builders attached and prepared, with calls enough for a tree to be
\* assembled from builders used before and then prepared twice.
MaxRepeatOps == 4

RepeatPresets(n) ==
  CASE n = 1 -> {PDocFiltered}
    [] n = 2 -> {PDocPaged, PEdgeLimited}
    [] n = 3 -> {PEdgeCounted}
    [] OTHER -> {PEdgePlain}

RepeatInit == InitWith(RepeatPresets)

RepeatNext ==
  /\ nops < MaxRepeatOps
  /\ \/ \E n \in Nodes, c \in Nodes : n < c /\ AddAdditionalQuery(n, BuildField(c), c)
     \/ \E n \in Nodes : PrepareQuery(n)

SpecRepeat == RepeatInit /\ [][RepeatNext]_vars

\* The placeholders of text in the order of the text
PlaceholderSeq(text) == SelectSeq(text, LAMBDA t : t.k \in {"bind", "coll"})

\* The names of the selector, sort and limit clauses of node m are bound in
\* bindVars to the values of the query specification of m
OwnValues(h, m, bindVars) ==
  /\ h[m].kind = "document" =>
       bindVars[h[m].selector[4]] = VStr(options[m].documentCollection)
  /\ h[m].kind = "edge" =>
       /\ bindVars[h[m].selector[4]] = options[m].depth
       /\ options[m].startingVertexId # "" =>
            bindVars[h[m].startingVertexId[1]] = VStr(options[m].startingVertexId)
  /\ options[m].sortBy.present =>
       /\ bindVars[h[m].sort[4]] = VArr(split(options[m].sortBy.field))
       /\ bindVars[h[m].sort[5]] = VStr(options[m].sortBy.order)
  /\ options[m].limitBy.present =>
       /\ bindVars[h[m].limit[2]] = VNum(options[m].limitBy.offset)
       /\ bindVars[h[m].limit[4]] = VNum(options[m].limitBy.limit)

\* C24: when prepareQuery() is called on a root directly after it returned
\* a query for that root, it returns a query again; every name of the
\* second text carries a tick greater than every tick of the first text;
\* and every placeholder of the second text is a key of the second
\* parameter map, bound to the value of the query specification (the value
\* its counterpart of the first pass is bound to).
C24_SecondPassRenames ==
  [][ LET n == result.node
          first == PlaceholderSeq(result.query)
          second == PlaceholderSeq(result'.query)
      IN ( /\ Prepared(result)
           /\ result'.op = "prepareQuery"
           /\ result'.node = n
           /\ q[n].parent = NoNode )
         => /\ Prepared(result')
            /\ \A i \in DOMAIN second : \A j \in DOMAIN first : second[i].n > first[j].n
            /\ \A i \in DOMAIN second : second[i] \in DOMAIN result'.bindVars
            /\ Len(second) = Len(first)
            /\ \A i \in DOMAIN second :
                 /\ second[i].s = first[i].s
                 /\ result'.bindVars[second[i]] = result.bindVars[first[i]]
            /\ \A m \in Subtree(q', n) : OwnValues(q', m, result'.bindVars) ]_vars

\* The leaf conditions of a filter specification in depth-first order
RECURSIVE LeafEntries(_)
LeafEntries(filter) ==
  Flatten([i \in 1..Len(filter.sub) |->
    LET fk == filter.sub[i].val
    IN IF isFilterPrimitiveType(fk) \/ isFilterProperFilterObject(fk)
       THEN <<fk>> ELSE LeafEntries(fk)])

\* Tokens p..p+4 of the filter clause are the comparison of leaf fk of
\* node n, and bindVars binds its path to an array and its value to the
\* '@value' of a leaf filter object, to fk itself otherwise
LeafComparison(h, n, p, fk, bindVars) ==
  LET f == h[n].filter
      alias == Prop(fk, "@docNameToFilter")
      operator == Prop(fk, "@operator")
  IN /\ f[p] = Id(IF Nullish(alias) THEN h[n].doc ELSE alias.s[1])
     /\ f[p + 1] = Kw(".")
     /\ f[p + 2].k = "bind" /\ f[p + 2].s = "path"
     /\ f[p + 3] = (IF Nullish(operator) THEN Kw("==") ELSE Op(operator.s[1]))
     /\ f[p + 4].k = "bind" /\ f[p + 4].s = "filter"
     /\ bindVars[f[p + 2]].t = "array"
     /\ bindVars[f[p + 4]] =
          (IF isFilterProperFilterObject(fk) THEN Prop(fk, "@value") ELSE fk)
     /\ bindVars[f[p + 4]].t # "object"

\* C25: the filter clause of a query returned for a node whose filter
\* specification has leaves is FILTER followed by one comparison per leaf,
\* '<alias>.@path <operator> @filter', in the order of the leaves; the
\* operator and the alias are those of a leaf filter object (== and the row
\* alias by default), the path is bound to an array, and the value bound is
\* the '@value' of the object, also when that is null, never the object.
C25_LeafComparisons ==
  LET n == result.node
      leaves == LeafEntries(options[n].filterBy.filter)
  IN ( Prepared(result) /\ options[n].filterBy.present /\ Len(leaves) > 0 )
     => /\ Len(q[n].filter) = 6 * Len(leaves)
        /\ \A i \in 1..Len(leaves) :
             LeafComparison(q, n, 6 * i - 4, leaves[i], result.bindVars)

\* ----------------------------------------------- the attach specification
\* Any builder attached to any builder, itself included, and prepared.
MaxAttachOps == 3

AttachNext ==
  /\ nops < MaxAttachOps
  /\ \/ \E n \in Nodes, c \in Nodes : AddAdditionalQuery(n, BuildField(c), c)
     \/ \E n \in Nodes : PrepareQuery(n)

SpecAttach == RepeatInit /\ [][AttachNext]_vars

\* C26: whatever builders were attached to whatever builders, the walk along
\* the parent references of every node ends at a node with no parent, and
\* every prepareQuery() call returns or throws.
C26_Terminates ==
  /\ \A n \in Nodes : q[RootOf(q, n)].parent = NoNode
  /\ result.op = "prepareQuery" => result.err # "hang"

\* C27: every builder listed in the child map of p has p as its parent
\* reference, so every builder assembled under p allocates from the counter
\* p allocates from.
C27_ParentsMatchChildMaps ==
  \A p \in Nodes :
    /\ \A c \in Kids(q, p) : q[c].parent = p
    /\ \A m \in Subtree(q, p) : getTopmostParentQuery(q, m) = getTopmostParentQuery(q, p)

\* C28: the keys of the parameter map returned by prepareQuery() are the
\* placeholders of the returned text, none more and none less.
C28_NoUnreferencedParameter ==
  Prepared(result) => DOMAIN result.bindVars = Placeholders(result.query)

\* C29: in a query returned for a node whose specification carries a
\* filter, the filter clause is FILTER followed by one comparison per leaf
\* condition with && between two comparisons; when the specification has no
\* leaf there is no filter clause and no name was allocated for one.
C29_FilterWellFormed ==
  LET n == result.node
      leaves == LeafEntries(options[n].filterBy.filter)
      f == q[n].filter
  IN ( Prepared(result) /\ options[n].filterBy.present )
     => IF Len(leaves) = 0
        THEN /\ f = << >>
             /\ \A key \in DOMAIN result.bindVars : key.s \notin {"path", "filter"}
        ELSE /\ f[1] = Kw("FILTER")
             /\ Len(f) = 6 * Len(leaves)
             /\ \A i \in 1..(Len(leaves) - 1) : f[6 * i + 1] = Kw("&&")
             /\ Len(SelectSeq(f, LAMBDA t : t.k = "bind" /\ t.s = "filter")) = Len(leaves)
             /\ Len(SelectSeq(f, LAMBDA t : t.k = "bind" /\ t.s = "path")) = Len(leaves)
             /\ Contains(result.query, f)

====
